---- MODULE Spec2Model ----
(***************************************************************************)
(* Model of smoltcp's phy::DelayInjector (src/phy/delay_injector.rs): a    *)
(* Device decorator holding an inner device, a fixed delay and two FIFO    *)
(* queues.  One action per public operation; the inner device is an        *)
(* external collaborator whose receive/transmit results are inputs.        *)
(* A TxToken borrows the injector mutably, so it is consumed or dropped    *)
(* before the next call (pc = "tx_token").  Timestamps come from the       *)
(* caller's monotonic clock.  Packet and buffer contents are drawn from    *)
(* the small sample sets Packets and Bufs.                                 *)
(***************************************************************************)
EXTENDS Integers, Sequences, FiniteSets, TLC

\* ---------------------------------------------------------------- bounds
MaxTime  == 1      \* the caller's clock runs over 0..MaxTime
MaxDelay == 1      \* the delay given to new(): 0..MaxDelay
MaxPkts  == 2      \* packets the inner device yields over a run
MaxSlots == 2      \* transmit slots requested on the injector over a run
MtuSpan  == 60     \* inner MTU values range over MTU-MtuSpan .. MTU+MtuSpan

\* ------------------------------------------------------- program constants
MTU == 1536

Times   == 0..MaxTime
Delays  == 0..MaxDelay
Byte    == {0, 1}
Lens    == {0, 1}
\* the buffers a transmit token can be left with: consume(len, f) for len in Lens
Bufs    == UNION {[1..n -> Byte] : n \in Lens}
\* the packets (bytes, metadata) the inner device hands to poll
Packets == {[buf |-> <<>>, meta |-> 0], [buf |-> <<1>>, meta |-> 1]}
\* what inner.receive() can return: None, or a token pair carrying a packet
InnerYields == {[some |-> FALSE, buf |-> <<>>, meta |-> 0]}
               \cup {[some |-> TRUE, buf |-> p.buf, meta |-> p.meta] : p \in Packets}
InnerMtus == (MTU - MtuSpan)..(MTU + MtuSpan)

VARIABLES
    innerMtu,   \* inner.capabilities().max_transmission_unit
    innerRx,    \* inner device: number of packets its receive() has yielded
    innerTx,    \* inner device: the buffers written through its transmit tokens, in order
    delay,      \* DelayInjector.delay
    rx_queue,   \* DelayInjector.rx_queue : (buf, release time, meta); history fields
                \* id (the packet was the id-th the inner device yielded), t (the poll
                \* timestamp that enqueued it), src (the packet as the inner device yielded it)
    tx_queue,   \* DelayInjector.tx_queue : (buf, release time); history fields
                \* id (the slot was the id-th requested) and t (the timestamp of the request)
    slots,      \* number of transmit slots requested on the injector
    transmits,  \* history: number of transmit() calls made by the caller
    asked,      \* inner device: ids of the entries for which the most recent poll
                \* called inner.transmit(), in order
    delivered,  \* history: ids of the packets handed out by successful receive calls
    rxOut,      \* the RxToken handed out by the most recent successful receive
    pc,         \* "idle", "tx_token" (a TxToken borrows the injector),
                \* "spinning" (poll never returns), "gone" (after into_inner)
    last,       \* the most recent call on the injector: operation, result and the
                \* timestamp the caller passed (its clock)
    caps        \* the MTU in the value returned by the most recent capabilities() call

vars == <<innerMtu, innerRx, innerTx, delay, rx_queue, tx_queue, slots,
          transmits, asked, delivered, rxOut, pc, last, caps>>

\* ------------------------------------------------------------ helpers
Ids(q) == {q[i].id : i \in 1..Len(q)}

\* Vec<u8>::extend(repeat(0).take(len))
RECURSIVE Zeros(_)
Zeros(n) == IF n = 0 THEN <<>> ELSE Append(Zeros(n - 1), 0)

\* RxReleaseTime with the timestamp forgotten
RxReleaseTime_DelayOnly(timestamp, d) == d

\* RxReleaseTime with the delay forgotten
RxReleaseTime_NoDelay(timestamp, d) == timestamp

\* timestamp + self.delay
RxReleaseTime(timestamp, d) == timestamp + d

\* TxReleaseTime with the delay added, as for inbound entries
TxReleaseTime_Delayed(timestamp, d) == timestamp + d

\* the release time `timestamp` that transmit stamps on a new entry (no delay)
TxReleaseTime(timestamp, d) == timestamp

\* RxNotReady with the comparison reversed
RxNotReady_Reversed(recv_time, timestamp) == recv_time < timestamp

\* RxNotReady with >= for >: an entry released exactly at the timestamp is held back
RxNotReady_Inclusive(recv_time, timestamp) == recv_time >= timestamp

\* the test `*recv_time > timestamp` of receive
RxNotReady(recv_time, timestamp) == recv_time > timestamp

\* TxDue with <= for <: an entry stamped with the timestamp itself is forwarded
TxDue_Inclusive(release, timestamp) == release <= timestamp

\* the test `front.1 < timestamp` of poll's drain loop
TxDue(release, timestamp) == release < timestamp

\* RxPushBack as push_front
RxPushBack_Front(q, e) == <<e>> \o q

\* TxPushBack as push_front
TxPushBack_Front(q, e) == <<e>> \o q

\* VecDeque::push_back on rx_queue / tx_queue
RxPushBack(q, e) == Append(q, e)
TxPushBack(q, e) == Append(q, e)

\* TxFront as back()
TxFront_Back(q) == q[Len(q)]

\* RxPopFront taking the entry behind the front along
RxPopFront_Two(q) == SubSeq(q, 3, Len(q))

\* VecDeque::front / pop_front on rx_queue / tx_queue
RxFront(q) == q[1]
RxPopFront(q) == SubSeq(q, 2, Len(q))
TxFront(q) == q[1]
TxPopFront(q) == SubSeq(q, 2, Len(q))

\* ToVec losing the last byte
ToVec_Truncated(buffer) == SubSeq(buffer, 1, Len(buffer) - 1)

\* buffer.to_vec()
ToVec(buffer) == [i \in 1..Len(buffer) |-> buffer[i]]

\* no RxToken has been handed out yet
NoRxToken == [some |-> FALSE, buf |-> <<>>, meta |-> 0, src |-> [buf |-> <<>>, meta |-> 0]]

\* RxToken { buf, meta }, RxToken::consume and RxToken::meta
MkRxToken(buf, meta) == [buf |-> buf, meta |-> meta]
RxTokenConsume(tok) == tok.buf
RxTokenMeta(tok) == tok.meta

\* TxTokenExtend growing the buffer by one byte too many
TxTokenExtend_OneMore(buf, len) == buf \o Zeros(len + 1)

\* TxToken::consume: grow the bound buffer by len zero bytes
TxTokenExtend(buf, len) == buf \o Zeros(len)

\* capabilities without the clamp
capabilities_NoClamp(inner_mtu) == inner_mtu

\* capabilities(): clamp the inner MTU to the ceiling
capabilities(inner_mtu) == IF inner_mtu > MTU THEN MTU ELSE inner_mtu

\* x[..buf.len()].copy_from_slice(&buf) into an inner slot of buf.len() bytes
CopyFromSlice(x, buf) == [i \in 1..Len(x) |-> IF i <= Len(buf) THEN buf[i] ELSE x[i]]

\* DrainTx without the `buf.is_empty()` test: a token is requested from the
\* inner device for every due entry
RECURSIVE DrainTx_NoEmptyCheck(_, _, _, _, _)
DrainTx_NoEmptyCheck(q, timestamp, ok, out, req) ==
    IF q = <<>>
    THEN [tx_queue |-> q, innerTx |-> out, asked |-> req, returns |-> TRUE]
    ELSE IF TxDue(TxFront(q).time, timestamp)
         THEN LET e == TxFront(q) IN
              IF e.id \in ok
              THEN DrainTx_NoEmptyCheck(TxPopFront(q), timestamp, ok,
                           Append(out, [buf |-> CopyFromSlice(Zeros(Len(e.buf)), e.buf),
                                        len |-> Len(e.buf),
                                        id  |-> e.id]),
                           Append(req, e.id))
              ELSE DrainTx_NoEmptyCheck(TxPopFront(q), timestamp, ok, out,
                                        Append(req, e.id))
         ELSE [tx_queue |-> q, innerTx |-> out, asked |-> req, returns |-> FALSE]

(***************************************************************************)
(* The drain loop of poll.  `ok` is the set of entries for which the inner *)
(* device's transmit() returns a token, `req` the entries for which it was  *)
(* called so far.  The loop has no exit other than                         *)
(* the queue becoming empty: when the front entry is not due, the body     *)
(* does nothing and the same condition is evaluated again, for ever        *)
(* (returns = FALSE).                                                      *)
(***************************************************************************)
RECURSIVE DrainTx(_, _, _, _, _)
DrainTx(q, timestamp, ok, out, req) ==
    IF q = <<>>
    THEN [tx_queue |-> q, innerTx |-> out, asked |-> req, returns |-> TRUE]
    ELSE IF TxDue(TxFront(q).time, timestamp)
         THEN LET e == TxFront(q) IN
              IF e.buf = <<>>
              THEN DrainTx(TxPopFront(q), timestamp, ok, out, req)
              ELSE IF e.id \in ok
                   THEN DrainTx(TxPopFront(q), timestamp, ok,
                                Append(out, [buf |-> CopyFromSlice(Zeros(Len(e.buf)), e.buf),
                                             len |-> Len(e.buf),
                                             id  |-> e.id]),
                                Append(req, e.id))
                   ELSE DrainTx(TxPopFront(q), timestamp, ok, out, Append(req, e.id))
         ELSE [tx_queue |-> q, innerTx |-> out, asked |-> req, returns |-> FALSE]

\* the entries for which the drain loop can reach `self.inner.transmit(timestamp)`
TxAsked(q, timestamp) ==
    {q[i].id : i \in {k \in 1..Len(q) : q[k].buf # <<>> /\ TxDue(q[k].time, timestamp)}}

\* ---------------------------------------------------------------- Init
\* DelayInjector::new(inner, delay)
Init ==
    /\ innerMtu = MTU
    /\ innerRx = 0
    /\ innerTx = <<>>
    /\ delay \in Delays
    /\ rx_queue = <<>>
    /\ tx_queue = <<>>
    /\ slots = 0
    /\ transmits = 0
    /\ asked = <<>>
    /\ delivered = <<>>
    /\ rxOut = NoRxToken
    /\ pc = "idle"
    /\ last = [op |-> "new", ret |-> "none", now |-> 0]
    /\ caps = 0

\* ------------------------------------------------------------- actions
\* The caller is one polling loop that reads a monotonic clock: the timestamp of
\* a call is never earlier than the timestamp of the call before it.
\* poll(timestamp); yield is the result of inner.receive(timestamp), ok the
\* entries for which inner.transmit(timestamp) returns a token
Poll(timestamp, yield) ==
    /\ pc = "idle"
    /\ timestamp >= last.now
    /\ yield.some => innerRx < MaxPkts
    /\ \E ok \in SUBSET TxAsked(tx_queue, timestamp) :
       LET d == DrainTx(tx_queue, timestamp, ok, innerTx, <<>>)
       IN /\ IF yield.some
             THEN /\ innerRx' = innerRx + 1
                  /\ rx_queue' = RxPushBack(rx_queue,
                                     [buf  |-> ToVec(yield.buf),
                                      time |-> RxReleaseTime(timestamp, delay),
                                      meta |-> yield.meta,
                                      id   |-> innerRx + 1,
                                      t    |-> timestamp,
                                      src  |-> [buf |-> yield.buf, meta |-> yield.meta]])
             ELSE UNCHANGED <<innerRx, rx_queue>>
          /\ tx_queue' = d.tx_queue
          /\ innerTx' = d.innerTx
          /\ asked' = d.asked
          /\ pc' = IF d.returns THEN "idle" ELSE "spinning"
          /\ last' = [op |-> "poll", ret |-> IF d.returns THEN "unit" ELSE "never",
                      now |-> timestamp]
    /\ UNCHANGED <<innerMtu, delay, slots, transmits, delivered, rxOut, caps>>

\* Transmit passing the new slot straight on to the inner device
Transmit_Direct(timestamp) ==
    /\ pc = "idle"
    /\ timestamp >= last.now
    /\ slots < MaxSlots
    /\ tx_queue' = TxPushBack(tx_queue, [buf |-> <<>>,
                                         time |-> TxReleaseTime(timestamp, delay),
                                         id |-> slots + 1, t |-> timestamp])
    /\ innerTx' = Append(innerTx, [buf |-> <<>>, len |-> 0, id |-> slots + 1])
    /\ slots' = slots + 1
    /\ transmits' = transmits + 1
    /\ pc' = "tx_token"
    /\ last' = [op |-> "transmit", ret |-> "some", now |-> timestamp]
    /\ UNCHANGED <<innerMtu, innerRx, asked, delay, rx_queue, delivered, rxOut, caps>>

\* transmit(timestamp): push an empty entry, hand out a token bound to it
Transmit(timestamp) ==
    /\ pc = "idle"
    /\ timestamp >= last.now
    /\ slots < MaxSlots
    /\ tx_queue' = TxPushBack(tx_queue, [buf |-> <<>>,
                                         time |-> TxReleaseTime(timestamp, delay),
                                         id |-> slots + 1, t |-> timestamp])
    /\ slots' = slots + 1
    /\ transmits' = transmits + 1
    /\ pc' = "tx_token"
    /\ last' = [op |-> "transmit", ret |-> "some", now |-> timestamp]
    /\ UNCHANGED <<innerMtu, innerRx, innerTx, asked, delay, rx_queue, delivered, rxOut,
                   caps>>

\* receive(timestamp)
Receive(timestamp) ==
    /\ pc = "idle"
    /\ timestamp >= last.now
    /\ IF rx_queue = <<>> \/ RxNotReady(RxFront(rx_queue).time, timestamp)
       THEN /\ last' = [op |-> "receive", ret |-> "none", now |-> timestamp]
            /\ UNCHANGED <<rx_queue, tx_queue, slots, delivered, rxOut, pc>>
       ELSE /\ slots < MaxSlots
            /\ LET e  == RxFront(rx_queue)
                   rx == MkRxToken(e.buf, e.meta)
               IN /\ rx_queue' = RxPopFront(rx_queue)
                  /\ delivered' = Append(delivered, e.id)
                  /\ rxOut' = [some |-> TRUE,
                               buf  |-> RxTokenConsume(rx),
                               meta |-> RxTokenMeta(rx),
                               src  |-> e.src]
            /\ tx_queue' = TxPushBack(tx_queue, [buf |-> <<>>,
                                                 time |-> TxReleaseTime(timestamp, delay),
                                                 id |-> slots + 1, t |-> timestamp])
            /\ slots' = slots + 1
            /\ pc' = "tx_token"
            /\ last' = [op |-> "receive", ret |-> "some", now |-> timestamp]
    /\ UNCHANGED <<innerMtu, innerRx, innerTx, asked, transmits, delay, caps>>

\* the TxToken is dropped without being consumed
TxTokenDrop ==
    /\ pc = "tx_token"
    /\ pc' = "idle"
    /\ UNCHANGED <<innerMtu, innerRx, innerTx, asked, delay, rx_queue, tx_queue, slots,
                   transmits, delivered, rxOut, last, caps>>

\* TxToken::consume(len, f): the buffer grows by len zero bytes, then the
\* closure f writes in place; `written` are the leading bytes f stores, the
\* bytes f does not touch keep the value consume gave them
TxTokenConsume(len, written) ==
    /\ pc = "tx_token"
    /\ LET n     == Len(tx_queue)
           e     == tx_queue[n]
           grown == TxTokenExtend(e.buf, len)
       IN /\ Len(written) <= Len(grown)
          /\ tx_queue' = [tx_queue EXCEPT ![n].buf = CopyFromSlice(grown, written)]
    /\ pc' = "idle"
    /\ UNCHANGED <<innerMtu, innerRx, innerTx, asked, delay, rx_queue, slots, transmits,
                   delivered, rxOut, last, caps>>

\* IntoInner flushing the filled outbound buffers into the inner device first
IntoInner_Flush ==
    /\ pc = "idle"
    /\ pc' = "gone"
    /\ rx_queue' = <<>>
    /\ tx_queue' = <<>>
    /\ LET filled == SelectSeq(tx_queue, LAMBDA e : e.buf # <<>>)
       IN innerTx' = innerTx \o [i \in 1..Len(filled) |->
                                    [buf |-> filled[i].buf, len |-> Len(filled[i].buf),
                                     id |-> filled[i].id]]
    /\ last' = [op |-> "into_inner", ret |-> "inner", now |-> last.now]
    /\ UNCHANGED <<innerMtu, innerRx, asked, delay, slots, transmits, delivered,
                   rxOut, caps>>

\* into_inner(): the injector and both queues are dropped
IntoInner ==
    /\ pc = "idle"
    /\ pc' = "gone"
    /\ rx_queue' = <<>>
    /\ tx_queue' = <<>>
    /\ last' = [op |-> "into_inner", ret |-> "inner", now |-> last.now]
    /\ UNCHANGED <<innerMtu, innerRx, innerTx, asked, delay, slots, transmits, delivered,
                   rxOut, caps>>

\* capabilities()
Capabilities ==
    /\ pc = "idle"
    /\ caps' = capabilities(innerMtu)
    /\ last' = [op |-> "capabilities", ret |-> "caps", now |-> last.now]
    /\ UNCHANGED <<innerMtu, innerRx, innerTx, asked, delay, rx_queue, tx_queue, slots,
                   transmits, delivered, rxOut, pc>>

Next ==
    \/ \E t \in Times, y \in InnerYields : Poll(t, y)
    \/ \E t \in Times : Receive(t)
    \/ \E t \in Times : Transmit(t)
    \/ TxTokenDrop
    \/ \E len \in Lens, w \in Bufs : TxTokenConsume(len, w)
    \/ IntoInner

Spec == Init /\ [][Next]_vars

\* capabilities() over the range of inner MTU values
CapsInit ==
    /\ innerMtu \in InnerMtus
    /\ innerRx = 0
    /\ innerTx = <<>>
    /\ delay \in Delays
    /\ rx_queue = <<>>
    /\ tx_queue = <<>>
    /\ slots = 0
    /\ transmits = 0
    /\ asked = <<>>
    /\ delivered = <<>>
    /\ rxOut = NoRxToken
    /\ pc = "idle"
    /\ last = [op |-> "new", ret |-> "none", now |-> 0]
    /\ caps = 0

CapsNext == Capabilities

CapsSpec == CapsInit /\ [][CapsNext]_vars

TypeOK ==
    /\ pc \in {"idle", "tx_token", "spinning", "gone"}
    /\ innerRx \in 0..MaxPkts
    /\ slots \in 0..MaxSlots
    /\ transmits \in 0..slots
    /\ Len(asked) <= slots

\* ---------------------------------------------------------------- claims
MinOf(a, b) == IF a <= b THEN a ELSE b
Last(q) == q[Len(q)]
InnerTxCount(log, id) == Cardinality({j \in 1..Len(log) : log[j].id = id})

\* C1: an inbound packet that poll(t) enqueued is never handed out by a
\* receive(now) call with now < t + delay.
C1_NoEarlyReceive ==
    [][Len(delivered') = Len(delivered) + 1 =>
          \A ts \in Times : \A i \in 1..Len(rx_queue) :
              (Last(delivered') = rx_queue[i].id /\ Receive(ts))
              => ts >= rx_queue[i].t + delay]_vars

\* a packet was handed out under a non-zero delay while another is still held
C1_Witness ==
    /\ delay > 0
    /\ Len(delivered) > 0
    /\ rx_queue # <<>>

\* C2: every poll(now) call terminates; the drain loop stops at a front entry
\* whose release time is not strictly before now and poll returns.
C2_PollTerminates == ~(pc = "spinning")

\* C3: while the injector is alive, every non-empty outbound buffer that has
\* left the outbound queue has been written to the inner device's transmit path.
C3_NoFilledBufferLost ==
    [][pc' # "gone" =>
          \A i \in 1..Len(tx_queue) :
              (tx_queue[i].buf # <<>> /\ tx_queue[i].id \notin Ids(tx_queue'))
              => \E j \in 1..Len(innerTx') :
                    innerTx'[j].id = tx_queue[i].id /\ innerTx'[j].buf = tx_queue[i].buf]_vars

\* C4: a buffer filled through the token of transmit(t) is written to the inner
\* device by no poll(now) with now <= t, exactly once after a poll(now) with
\* now > t has run, and never twice.
C4_ForwardedExactlyOnce ==
    [][\A ts \in Times, y \in InnerYields :
          Poll(ts, y) =>
            /\ \A i \in 1..Len(tx_queue) :
                  InnerTxCount(innerTx', tx_queue[i].id) > InnerTxCount(innerTx, tx_queue[i].id)
                  => ts > tx_queue[i].t
            /\ \A i \in 1..Len(tx_queue) :
                  (tx_queue[i].buf # <<>> /\ ts > tx_queue[i].t)
                  => InnerTxCount(innerTx', tx_queue[i].id) = 1
            /\ \A id \in 1..slots : InnerTxCount(innerTx', id) <= 1]_vars

\* C5 (as stated): every queued inbound packet whose release time t + delay is
\* reached is returned by the first receive call made at or after that time,
\* also when several queued packets are due at that call.
C5_EveryDuePacketReturned ==
    [][\A ts \in Times : \A i \in 1..Len(rx_queue) :
          (Receive(ts) /\ ts >= rx_queue[i].t + delay)
          => rx_queue[i].id \notin Ids(rx_queue')]_vars

\* C5 (amended): the packet at the front of the inbound queue is returned by
\* the first receive call whose time argument is >= t + delay; a receive call
\* returns that one packet only.
C5_FrontDuePacketReturned ==
    [][(pc = "idle" /\ rx_queue # <<>> /\ last'.op = "receive") =>
          \A ts \in Times :
              (ts >= Head(rx_queue).t + delay /\ Receive(ts))
              => /\ Len(delivered') = Len(delivered) + 1
                 /\ Last(delivered') = Head(rx_queue).id
                 /\ rx_queue' = Tail(rx_queue)]_vars

\* a receive has just returned a packet while another due packet stays queued
C5_Witness ==
    /\ pc = "tx_token"
    /\ last.op = "receive" /\ last.ret = "some"
    /\ rx_queue # <<>>
    /\ Head(rx_queue).t + delay <= Last(tx_queue).t

\* C6: the packets returned by successive successful receive calls are the
\* packets the inner device yielded, in the same order, none twice, none skipped.
C6_InboundFifo == \A i \in 1..Len(delivered) : delivered[i] = i

\* two packets have been received
C6_Witness == Len(delivered) = 2

\* C7: the buffers written to the inner device's transmit path appear in the
\* order in which their slots were requested on the injector.
C7_OutboundFifo ==
    \A i, j \in 1..Len(innerTx) : i < j => innerTx[i].id < innerTx[j].id

\* two buffers have been forwarded
C7_Witness == Len(innerTx) = 2

\* C8: when the inner device yields nothing, no inbound entry is due and no
\* outbound entry is due at now, poll(now) and receive(now) return and leave
\* the lengths of both queues unchanged.
C8_IdleCallsReturn ==
    [][\A ts \in Times, y \in InnerYields :
          (/\ \/ Poll(ts, y) /\ ~y.some
              \/ Receive(ts)
           /\ \A i \in 1..Len(rx_queue) : rx_queue[i].time > ts
           /\ \A i \in 1..Len(tx_queue) : ~(tx_queue[i].time < ts))
          => /\ pc' = "idle"
             /\ Len(rx_queue') = Len(rx_queue)
             /\ Len(tx_queue') = Len(tx_queue)]_vars

\* C9: the MTU reported by capabilities() is min(inner MTU, 1536).
C9_MtuClamped == last.op = "capabilities" => caps = MinOf(innerMtu, 1536)

\* capabilities() was called on an inner device whose MTU exceeds the ceiling
C9_Witness == last.op = "capabilities" /\ innerMtu > 1536 /\ caps = 1536

\* C10: a packet handed out by receive carries the bytes and the metadata the
\* inner device yielded for it.
C10_PacketPreserved ==
    rxOut.some =>
        /\ Len(rxOut.buf) = Len(rxOut.src.buf)
        /\ \A k \in 1..Len(rxOut.buf) : rxOut.buf[k] = rxOut.src.buf[k]
        /\ rxOut.meta = rxOut.src.meta

\* a non-empty packet with non-default metadata was handed out
C10_Witness == rxOut.some /\ rxOut.src.buf # <<>> /\ rxOut.src.meta = 1
\* C11: into_inner hands back the inner device as it was: the step that
\* decomposes the injector neither pulls a packet from the inner device nor
\* writes or requests a transmission on it, whatever the queues hold.
C11_IntoInnerUntouched ==
    [][(pc' = "gone" /\ pc # "gone") =>
          /\ innerRx' = innerRx
          /\ innerTx' = innerTx
          /\ asked' = asked
          /\ innerMtu' = innerMtu]_vars

\* the injector was decomposed with an undelivered inbound packet queued and
\* outbound slots created, and the inner device has seen no transmission
C11_Witness ==
    /\ pc = "gone"
    /\ innerRx > Len(delivered)
    /\ slots > 0
    /\ innerTx = <<>>

\* C12: when poll(now) returns, the front of the outbound queue is not an entry
\* released strictly before now; the call asks the inner device for at most as
\* many transmit tokens as there were filled entries released before now when
\* it started; an entry released at now or later is neither requested nor
\* written by the call.
C12_PollDrainBounded ==
    [][last'.op = "poll" =>
          \A ts \in Times, y \in InnerYields :
              Poll(ts, y) =>
                /\ pc' = "idle" => (tx_queue' = <<>> \/ ~(Head(tx_queue').time < ts))
                /\ Len(asked') <= Cardinality({i \in 1..Len(tx_queue) :
                                     tx_queue[i].buf # <<>> /\ tx_queue[i].time < ts})
                /\ \A i \in 1..Len(tx_queue) :
                      tx_queue[i].time >= ts
                      => /\ \A j \in 1..Len(asked') : asked'[j] # tx_queue[i].id
                         /\ InnerTxCount(innerTx', tx_queue[i].id)
                              = InnerTxCount(innerTx, tx_queue[i].id)]_vars

\* a poll returned after asking the inner device for two transmit tokens
C12_Witness ==
    /\ last.op = "poll"
    /\ last.ret = "unit"
    /\ Len(asked) = 2

\* C13: a poll(now) pulls at most one packet from the inner device; when the
\* inner device yields one, exactly one entry is appended at the back of the
\* inbound queue, released at now + delay, and otherwise the inbound queue is
\* unchanged; the delay never changes.
C13_PollEnqueuesOne ==
    [][/\ delay' = delay
       /\ last'.op = "poll" =>
             \A ts \in Times, y \in InnerYields :
                 Poll(ts, y) =>
                   /\ innerRx' <= innerRx + 1
                   /\ y.some =>
                         /\ innerRx' = innerRx + 1
                         /\ Len(rx_queue') = Len(rx_queue) + 1
                         /\ SubSeq(rx_queue', 1, Len(rx_queue)) = rx_queue
                         /\ Last(rx_queue').time = ts + delay
                         /\ Last(rx_queue').buf = y.buf
                         /\ Last(rx_queue').meta = y.meta
                         /\ Last(rx_queue').id \notin Ids(rx_queue)
                   /\ ~y.some => (innerRx' = innerRx /\ rx_queue' = rx_queue)]_vars

\* under a non-zero delay a poll appended a second entry behind a queued one
C13_Witness ==
    /\ delay > 0
    /\ last.op = "poll"
    /\ Len(rx_queue) = 2
    /\ Last(rx_queue).t = last.now
    /\ Last(rx_queue).time = last.now + delay

\* C14: with a caller whose timestamps never decrease, the release times of
\* the inbound queue and of the outbound queue are non-decreasing from front
\* to back in every reachable state, so no due entry sits behind an entry
\* that is not yet due.
C14_QueuesSorted ==
    /\ \A i, j \in 1..Len(rx_queue) : i < j => rx_queue[i].time <= rx_queue[j].time
    /\ \A i, j \in 1..Len(tx_queue) : i < j => tx_queue[i].time <= tx_queue[j].time

\* two inbound entries released at different times while an outbound entry waits
C14_Witness ==
    /\ Len(rx_queue) = 2
    /\ rx_queue[1].time < rx_queue[2].time
    /\ tx_queue # <<>>

\* C15: transmit(now) returns a token and appends exactly one entry at the back
\* of the outbound queue, with an empty buffer and release time now (the delay
\* is not added); the inbound queue and the outbound entries already queued
\* are unchanged.
C15_TransmitAppendsSlot ==
    [][(pc = "idle" /\ last'.op = "transmit") =>
          \A ts \in Times :
              Transmit(ts) =>
                /\ last'.ret = "some"
                /\ pc' = "tx_token"
                /\ Len(tx_queue') = Len(tx_queue) + 1
                /\ SubSeq(tx_queue', 1, Len(tx_queue)) = tx_queue
                /\ Last(tx_queue').buf = <<>>
                /\ Last(tx_queue').time = ts
                /\ rx_queue' = rx_queue]_vars

\* under a non-zero delay a transmit appended a second outbound entry, stamped
\* with the call's own timestamp, while an inbound packet is queued
C15_Witness ==
    /\ delay > 0
    /\ last.op = "transmit"
    /\ pc = "tx_token"
    /\ Len(tx_queue) = 2
    /\ Last(tx_queue).time = last.now
    /\ rx_queue # <<>>

\* C16: a receive(now) that returns a packet removes exactly the front inbound
\* entry and appends exactly one empty outbound entry released at now; the
\* number of outbound entries ever created is the number of transmit calls
\* plus the number of receive calls that returned a packet.
C16_ReceivePairsSlot ==
    /\ [](slots = transmits + Len(delivered))
    /\ [][Len(delivered') = Len(delivered) + 1 =>
             \A ts \in Times :
                 Receive(ts) =>
                   /\ rx_queue' = Tail(rx_queue)
                   /\ Len(tx_queue') = Len(tx_queue) + 1
                   /\ SubSeq(tx_queue', 1, Len(tx_queue)) = tx_queue
                   /\ Last(tx_queue').buf = <<>>
                   /\ Last(tx_queue').time = ts
                   /\ slots' = slots + 1]_vars

\* a receive returned a packet after an earlier transmit call, leaving a second
\* inbound packet queued
C16_Witness ==
    /\ last.op = "receive"
    /\ last.ret = "some"
    /\ pc = "tx_token"
    /\ transmits = 1
    /\ Len(delivered) = 1
    /\ rx_queue # <<>>

\* C17: an outbound entry that is due in a poll(now) while its buffer is
\* still empty is removed from the outbound queue by that call, and the call
\* neither asks the inner device for a transmit token for it nor writes it.
C17_EmptySlotDiscarded ==
    [][last'.op = "poll" =>
          \A ts \in Times, y \in InnerYields :
              Poll(ts, y) =>
                \A i \in 1..Len(tx_queue) :
                    (tx_queue[i].buf = <<>> /\ tx_queue[i].time < ts)
                    => /\ tx_queue[i].id \notin Ids(tx_queue')
                       /\ \A j \in 1..Len(asked') : asked'[j] # tx_queue[i].id
                       /\ InnerTxCount(innerTx', tx_queue[i].id) = 0]_vars

\* a poll returned, both outbound entries ever created are gone, and the call
\* asked the inner device for nothing
C17_Witness ==
    /\ last.op = "poll"
    /\ last.ret = "unit"
    /\ slots = 2
    /\ tx_queue = <<>>
    /\ asked = <<>>
    /\ innerTx = <<>>

\* C18: receive(now) returns nothing exactly when the inbound queue is empty
\* or its front entry is released strictly after now, and then neither queue
\* changes; whenever receive removes an inbound entry it returns that entry's
\* packet to the caller.
C18_ReceiveNoneIffNotDue ==
    [][(pc = "idle" /\ last'.op = "receive") =>
          \A ts \in Times :
              Receive(ts) =>
                /\ (last'.ret = "none")
                     <=> (rx_queue = <<>> \/ Head(rx_queue).time > ts)
                /\ last'.ret = "none" => (rx_queue' = rx_queue /\ tx_queue' = tx_queue)
                /\ rx_queue' # rx_queue =>
                      /\ last'.ret = "some"
                      /\ rx_queue' = Tail(rx_queue)
                      /\ rxOut'.some
                      /\ rxOut'.buf = Head(rx_queue).buf
                      /\ rxOut'.meta = Head(rx_queue).meta
                      /\ delivered' = Append(delivered, Head(rx_queue).id)]_vars

\* a receive returned nothing although an inbound packet is queued
C18_Witness ==
    /\ last.op = "receive"
    /\ last.ret = "none"
    /\ pc = "idle"
    /\ rx_queue # <<>>

\* C19: receive and transmit on the injector, and the use of the tokens they
\* hand out, leave the inner device alone; a step in which a packet leaves the
\* inner device, the inbound queue grows, or the inner device is asked for or
\* written a transmission, is a poll.
C19_OnlyPollTouchesInner ==
    [][/\ (last'.op \in {"receive", "transmit"} \/ pc = "tx_token") =>
             /\ innerRx' = innerRx
             /\ innerTx' = innerTx
             /\ asked' = asked
             /\ Len(rx_queue') <= Len(rx_queue)
       /\ (\/ innerRx' # innerRx
           \/ innerTx' # innerTx
           \/ asked' # asked
           \/ Len(rx_queue') > Len(rx_queue)) =>
             \E ts \in Times, y \in InnerYields : Poll(ts, y)]_vars

\* a receive returned a packet after a transmit call, a filled outbound buffer
\* waits in the queue, and the inner device has seen no transmission
C19_Witness ==
    /\ last.op = "receive"
    /\ last.ret = "some"
    /\ transmits = 1
    /\ tx_queue # <<>>
    /\ tx_queue[1].buf # <<>>
    /\ innerTx = <<>>

\* C20: consuming a transmit token with length len leaves the bound outbound
\* buffer with exactly len bytes, zero wherever the closure did not write;
\* what poll writes to the inner device for an entry is exactly the entry's
\* buffer, in a slot requested with the buffer's length.
C20_ConsumeLengthForwarded ==
    [][/\ pc = "tx_token" =>
             \A len \in Lens, w \in Bufs :
                 TxTokenConsume(len, w) =>
                   /\ Len(tx_queue') = Len(tx_queue)
                   /\ SubSeq(tx_queue', 1, Len(tx_queue) - 1)
                        = SubSeq(tx_queue, 1, Len(tx_queue) - 1)
                   /\ Len(Last(tx_queue').buf) = len
                   /\ \A k \in 1..len :
                         Last(tx_queue').buf[k] = IF k <= Len(w) THEN w[k] ELSE 0
       /\ last'.op = "poll" =>
             \A j \in (Len(innerTx) + 1)..Len(innerTx') :
                 \E i \in 1..Len(tx_queue) :
                     /\ tx_queue[i].id = innerTx'[j].id
                     /\ innerTx'[j].buf = tx_queue[i].buf
                     /\ innerTx'[j].len = Len(tx_queue[i].buf)]_vars

\* a buffer consumed with length 1 and left as zero-filled reached the inner
\* device in a slot of length 1
C20_Witness ==
    /\ Len(innerTx) > 0
    /\ innerTx[1].len = 1
    /\ innerTx[1].buf = <<0>>

====
